---- MODULE Spec2Model ----
(***************************************************************************)
(* A model of the program-arguments library (program_arguments.c, the C    *)
(* source kept in src/README.md from line 208 on, and the example           *)
(* validators of src/example/main.c).                                       *)
(*                                                                         *)
(* A C string is a sequence of one-character strings; the null pointer is  *)
(* the value NULL.  An int is an integer; a float is counted in tenths     *)
(* (0.5 is 5, 1.0 is 10), which is exact for every token of Tokens.        *)
(***************************************************************************)
EXTENDS Integers, Sequences, FiniteSets, TLC

VARIABLES
    definitions,      \* parser->definitions[0 .. definition_count-1]
    results,          \* parser->results (meaningful when allocated)
    allocated,        \* parser->results != NULL
    positional_args,  \* parser->positional_args[0 .. positional_count-1]
    argv,             \* the argv of the last arg_parser_parse call
    rc,               \* what the last arg_parser_parse returned
    stderr,           \* what the last arg_parser_parse printed to stderr
    probe,            \* per Result: validator calls, diagnostics printed, accessed or not
    parses,           \* the number of arg_parser_parse calls so far
    ub,               \* an access outside the results array has happened
    heap              \* the strings strdup has returned: held by the parser, lost, freed

vars == <<definitions, results, allocated, positional_args, argv, rc, stderr, probe,
          parses, ub, heap>>

----------------------------------------------------------------------------
(* Bounds of the model *)

\* the most definitions a run registers (below INITIAL_CAPACITY, so that
\* resize_definitions never runs)
MaxDefs == 2

\* the most tokens after argv[0]
MaxArgs == 3

\* the most arg_parser_parse calls of a run
MaxParses == 1

\* the most times an argument vector of the teardown runs gives an option
MaxGiven == 2

\* the most arg_parser_add_string calls of a run that fail after the default
\* was duplicated
MaxLeaks == 1

----------------------------------------------------------------------------
(* Values *)

NULL == <<"NULL">>

ARG_TYPE_FLAG == "ARG_TYPE_FLAG"
ARG_TYPE_STRING == "ARG_TYPE_STRING"
ARG_TYPE_INT == "ARG_TYPE_INT"
ARG_TYPE_FLOAT == "ARG_TYPE_FLOAT"

Prog == <<"p">>
OptA == <<"-", "a">>
OptB == <<"-", "b">>
Num5 == <<"5">>
File5 == <<"5", ".", "t", "x", "t">>
StrD == <<"d">>

\* the names registrations and lookups are tried with: a short name may be
\* absent, and may be the long name of another definition
ShortNames == {NULL, OptA}
LongNames == {OptA, OptB}

\* the tokens argv[1..] is built from
Tokens == {OptA, OptB, Num5, File5}

\* the default values registrations are tried with
FlagDefaults == {FALSE, TRUE}
StringDefaults == {NULL, StrD}
IntDefaults == {3}
FloatDefaults == {5}

RECURSIVE SeqsUpTo(_, _)
SeqsUpTo(S, n) ==
    IF n = 0 THEN {<<>>}
    ELSE LET shorter == SeqsUpTo(S, n - 1)
         IN  shorter \cup {Append(s, x) : s \in {t \in shorter : Len(t) = n - 1}, x \in S}

Argvs == {<<Prog>> \o t : t \in SeqsUpTo(Tokens, MaxArgs)}

\* the argument vectors that give an option and its value up to MaxGiven
\* times, then one more token or none
GivenArgvs ==
    LET pairs == {<<OptA, File5>>, <<OptA, Num5>>, <<OptB, File5>>}
        RECURSIVE Given(_)
        Given(n) == IF n = 0 THEN {<<>>}
                    ELSE LET shorter == Given(n - 1)
                         IN  shorter \cup {t \o q : t \in {u \in shorter : Len(u) = 2 * (n - 1)},
                                                     q \in pairs}
    IN  {<<Prog>> \o t \o e : t \in Given(MaxGiven), e \in {<<>>, <<OptA>>, <<Num5>>}}

\* the argument vectors with no token, one token, or an option and a token
OneOptionArgvs ==
    {<<Prog>>} \cup {<<Prog, t>> : t \in Tokens}
               \cup {<<Prog, o, t>> : o \in {OptA, OptB}, t \in Tokens}

----------------------------------------------------------------------------
(* libc *)

Digits == <<"0", "1", "2", "3", "4", "5", "6", "7", "8", "9">>

IsDigit(c) == \E d \in 1..10 : Digits[d] = c

DigitVal(c) == (CHOOSE d \in 1..10 : Digits[d] = c) - 1

\* the value of the longest run of digits at s[i..], continuing acc
RECURSIVE DigitRun(_, _, _)
DigitRun(s, i, acc) ==
    IF i > Len(s) \/ ~IsDigit(s[i]) THEN acc
    ELSE DigitRun(s, i + 1, acc * 10 + DigitVal(s[i]))

\* the index after the longest run of digits at s[i..]
RECURSIVE DigitEnd(_, _)
DigitEnd(s, i) ==
    IF i > Len(s) \/ ~IsDigit(s[i]) THEN i ELSE DigitEnd(s, i + 1)

\* atoi: an optional sign, then the leading digits; 0 when there are none
\* (the tokens hold no white space)
atoi(s) ==
    LET signed == Len(s) >= 1 /\ s[1] \in {"-", "+"}
        start == IF signed THEN 2 ELSE 1
        mag == DigitRun(s, start, 0)
    IN  IF signed /\ s[1] = "-" THEN 0 - mag ELSE mag

\* atof, in tenths: an optional sign, digits, an optional point and digits
\* (the first fraction digit is kept: no token has a second one); 0 when the
\* text does not start with a number
atof(s) ==
    LET signed == Len(s) >= 1 /\ s[1] \in {"-", "+"}
        start == IF signed THEN 2 ELSE 1
        whole == DigitRun(s, start, 0)
        dot == DigitEnd(s, start)
        hasInt == dot > start
        hasFrac == dot <= Len(s) /\ s[dot] = "." /\ dot + 1 <= Len(s) /\ IsDigit(s[dot + 1])
        frac == IF hasFrac THEN DigitVal(s[dot + 1]) ELSE 0
        mag == IF hasInt \/ hasFrac THEN whole * 10 + frac ELSE 0
    IN  IF signed /\ s[1] = "-" THEN 0 - mag ELSE mag

\* strcmp(s + len - 4, ".txt") == 0
EndsWithTxt(s) ==
    Len(s) >= 4 /\ SubSeq(s, Len(s) - 3, Len(s)) = <<".", "t", "x", "t">>

----------------------------------------------------------------------------
(* The validators of the example program *)

NoValidator == "NULL"

\* what a validator call leaves: its return value and the text it wrote to
\* the error buffer ("" when it wrote nothing)
validate_count(value, type) ==
    IF type # ARG_TYPE_INT THEN [ok |-> FALSE, msg |-> ""]
    ELSE IF value < 1 \/ value > 100
         THEN [ok |-> FALSE, msg |-> "Count must be between 1 and 100"]
         ELSE [ok |-> TRUE, msg |-> ""]

validate_threshold(value, type) ==
    IF type # ARG_TYPE_FLOAT THEN [ok |-> FALSE, msg |-> ""]
    ELSE IF value < 0 \/ value > 10
         THEN [ok |-> FALSE, msg |-> "Threshold must be between 0.0 and 1.0"]
         ELSE [ok |-> TRUE, msg |-> ""]

validate_output_file(value, type) ==
    IF type # ARG_TYPE_STRING THEN [ok |-> FALSE, msg |-> ""]
    ELSE IF value = NULL THEN [ok |-> FALSE, msg |-> ""]
    ELSE IF ~EndsWithTxt(value)
         THEN [ok |-> FALSE, msg |-> "Output file must have .txt extension"]
         ELSE [ok |-> TRUE, msg |-> ""]

Validators == {"validate_count", "validate_threshold", "validate_output_file"}

\* the call through the function pointer
CallValidator(fn, value, type) ==
    CASE fn = "validate_count" -> validate_count(value, type)
      [] fn = "validate_threshold" -> validate_threshold(value, type)
      [] fn = "validate_output_file" -> validate_output_file(value, type)

----------------------------------------------------------------------------
(* The definition registry *)

definition_count == Len(definitions)

\* what add_argument returns: -1 without a long_name, else 0
add_argument_value(long_name) == IF long_name = NULL THEN 0 - 1 ELSE 0

\* add_argument without the test of long_name
add_argument_unchecked(short_name, long_name, type, required, default_value) ==
    /\ ~ub
    /\ definition_count < MaxDefs
    /\ definitions' = Append(definitions,
           [short_name |-> short_name, long_name |-> long_name,
            type |-> type, required |-> required,
            default_value |-> default_value, validator |-> NoValidator])
    /\ UNCHANGED <<results, allocated, positional_args, argv, rc, stderr, probe, parses, ub>>

\* add_argument: the definition appended, or nothing changed
add_argument(short_name, long_name, type, required, default_value) ==
    /\ ~ub
    /\ IF add_argument_value(long_name) # 0
       THEN UNCHANGED definitions
       ELSE /\ definition_count < MaxDefs
            /\ definitions' = Append(definitions,
                   [short_name |-> short_name, long_name |-> long_name,
                    type |-> type, required |-> required,
                    default_value |-> default_value, validator |-> NoValidator])
    /\ UNCHANGED <<results, allocated, positional_args, argv, rc, stderr, probe, parses, ub>>

\* a string strdup returned: what it was duplicated for (a String default,
\* a parsed String value, a positional argument), the definition it belongs
\* to (0 for none), where it stands (the argv index of a value, the index
\* of a positional argument, the count of a default no definition took) and
\* the arg_parser_parse call that made it (0 for a registration)
Block(kind, owner, at, parse) ==
    [kind |-> kind, owner |-> owner, at |-> at, parse |-> parse]

\* the duplicated defaults whose registration failed
LeakedDefaults(h) == {b \in h.lost : b.kind = "default"}

\* the heap after arg_parser_add_string: the default is duplicated before
\* add_argument runs, and add_argument stores the pointer only when it
\* succeeds
add_string_heap(h, long_name, default_value) ==
    IF default_value = NULL THEN h
    ELSE IF add_argument_value(long_name) # 0
    THEN [h EXCEPT !.lost = @ \cup {Block("default", 0, Cardinality(LeakedDefaults(h)) + 1, 0)}]
    ELSE [h EXCEPT !.held = @ \cup {Block("default", definition_count + 1, 0, 0)}]

arg_parser_add_flag(short_name, long_name, default_value) ==
    /\ add_argument(short_name, long_name, ARG_TYPE_FLAG, FALSE, default_value)
    /\ UNCHANGED heap

arg_parser_add_string(short_name, long_name, required, default_value) ==
    /\ default_value # NULL /\ add_argument_value(long_name) # 0
           => Cardinality(LeakedDefaults(heap)) < MaxLeaks
    /\ add_argument(short_name, long_name, ARG_TYPE_STRING, required, default_value)
    /\ heap' = add_string_heap(heap, long_name, default_value)

arg_parser_add_int(short_name, long_name, required, default_value) ==
    /\ add_argument(short_name, long_name, ARG_TYPE_INT, required, default_value)
    /\ UNCHANGED heap

arg_parser_add_float(short_name, long_name, required, default_value) ==
    /\ add_argument(short_name, long_name, ARG_TYPE_FLOAT, required, default_value)
    /\ UNCHANGED heap

\* the first definition whose long_name is name, 0 when there is none
\* (the loop of arg_parser_set_validator and of arg_parser_get)
FindByLongName(defs, name) ==
    LET hits == {i \in 1..Len(defs) : defs[i].long_name # NULL /\ defs[i].long_name = name}
    IN  IF hits = {} THEN 0 ELSE CHOOSE i \in hits : \A j \in hits : i <= j

\* find_definition returning the last match in registration order
find_definition_last(defs, name) ==
    LET hits == {i \in 1..Len(defs) :
                    \/ (defs[i].long_name # NULL /\ defs[i].long_name = name)
                    \/ (defs[i].short_name # NULL /\ defs[i].short_name = name)}
    IN  IF hits = {} THEN 0 ELSE CHOOSE i \in hits : \A j \in hits : j <= i

\* find_definition: the first definition whose long_name or short_name is
\* name, 0 when there is none
find_definition(defs, name) ==
    LET hits == {i \in 1..Len(defs) :
                    \/ (defs[i].long_name # NULL /\ defs[i].long_name = name)
                    \/ (defs[i].short_name # NULL /\ defs[i].short_name = name)}
    IN  IF hits = {} THEN 0 ELSE CHOOSE i \in hits : \A j \in hits : i <= j

\* what arg_parser_set_validator returns
arg_parser_set_validator_value(long_name) ==
    IF FindByLongName(definitions, long_name) = 0 THEN 0 - 1 ELSE 0

\* arg_parser_set_validator looking the name up as find_definition does, by
\* long or short name
arg_parser_set_validator_any_name(long_name, validator) ==
    /\ ~ub
    /\ LET i == find_definition(definitions, long_name)
       IN  IF i = 0
           THEN UNCHANGED definitions
           ELSE definitions' = [definitions EXCEPT ![i].validator = validator]
    /\ UNCHANGED <<results, allocated, positional_args, argv, rc, stderr, probe, parses, ub, heap>>

\* arg_parser_set_validator putting the Result back to not-attempted
arg_parser_set_validator_resetting(long_name, validator) ==
    /\ ~ub
    /\ LET i == FindByLongName(definitions, long_name)
       IN  IF i = 0
           THEN UNCHANGED <<definitions, results>>
           ELSE /\ definitions' = [definitions EXCEPT ![i].validator = validator]
                /\ results' = [j \in 1..Len(results) |->
                                  IF j = i
                                  THEN [results[j] EXCEPT !.validation_attempted = FALSE,
                                                          !.is_valid = FALSE]
                                  ELSE results[j]]
    /\ UNCHANGED <<allocated, positional_args, argv, rc, stderr, probe, parses, ub, heap>>

arg_parser_set_validator(long_name, validator) ==
    /\ ~ub
    /\ LET i == FindByLongName(definitions, long_name)
       IN  IF i = 0
           THEN UNCHANGED definitions
           ELSE definitions' = [definitions EXCEPT ![i].validator = validator]
    /\ UNCHANGED <<results, allocated, positional_args, argv, rc, stderr, probe, parses, ub, heap>>

----------------------------------------------------------------------------
(* The parser engine *)

NoError == [msg |-> "", arg |-> NULL]

\* the Result a fresh results array holds for definition i
InitialResult_zeroed(defs, i) ==
    [definition |-> i,
     value |-> CASE defs[i].type = ARG_TYPE_FLAG -> FALSE
                 [] defs[i].type = ARG_TYPE_STRING -> NULL
                 [] defs[i].type = ARG_TYPE_INT -> 0
                 [] defs[i].type = ARG_TYPE_FLOAT -> 0,
     is_set |-> FALSE,
     validation_attempted |-> FALSE, is_valid |-> FALSE, validation_error |-> ""]

\* the Result arg_parser_parse initialises for definition i
InitialResult(defs, i) ==
    [definition |-> i, value |-> defs[i].default_value, is_set |-> FALSE,
     validation_attempted |-> FALSE, is_valid |-> FALSE, validation_error |-> ""]

\* the first Result whose definition pointer is &definitions[d], 0 when none
FindResult(res, d) ==
    LET hits == {j \in 1..Len(res) : res[j].definition = d}
    IN  IF hits = {} THEN 0 ELSE CHOOSE j \in hits : \A k \in hits : j <= k

\* the coercion storing zero unless the whole token is digits
Coerce_strict(type, value) ==
    CASE type = ARG_TYPE_STRING -> value
      [] type = ARG_TYPE_INT ->
             (IF DigitEnd(value, 1) > Len(value) THEN atoi(value) ELSE 0)
      [] type = ARG_TYPE_FLOAT ->
             (IF DigitEnd(value, 1) > Len(value) THEN atof(value) ELSE 0)

\* the value a non-flag option stores for its value token
Coerce(type, value) ==
    CASE type = ARG_TYPE_STRING -> value
      [] type = ARG_TYPE_INT -> atoi(value)
      [] type = ARG_TYPE_FLOAT -> atof(value)

\* arg_parser_parse without the check for required arguments
RequiredCheck_skipped(defs, res, pos) ==
    [rc |-> 0, err |-> NoError, results |-> res, positional |-> pos]

\* the check for required arguments, after the token loop
RequiredCheck(defs, res, pos) ==
    LET missing == {i \in 1..Len(defs) : defs[i].required /\ ~res[i].is_set}
    IN  IF missing = {}
        THEN [rc |-> 0, err |-> NoError, results |-> res, positional |-> pos]
        ELSE LET first == CHOOSE i \in missing : \A j \in missing : i <= j
             IN  [rc |-> -1,
                  err |-> [msg |-> "Required argument missing", arg |-> defs[first].long_name],
                  results |-> res, positional |-> pos]

\* the token loop taking an option without its value token for given
RECURSIVE ParseLoop_missing_sets(_, _, _, _, _)
ParseLoop_missing_sets(defs, args, i, res, pos) ==
    IF i > Len(args) THEN RequiredCheck(defs, res, pos)
    ELSE LET arg == args[i]
         IN  IF Len(arg) >= 1 /\ arg[1] = "-"
             THEN LET d == find_definition(defs, arg)
                      j == FindResult(res, d)
                  IN  IF d = 0
                      THEN [rc |-> -1, err |-> [msg |-> "Unknown argument", arg |-> arg],
                            results |-> res, positional |-> pos]
                      ELSE IF j = 0
                      THEN [rc |-> -1, err |-> NoError, results |-> res, positional |-> pos]
                      ELSE IF defs[d].type = ARG_TYPE_FLAG
                      THEN ParseLoop_missing_sets(defs, args, i + 1,
                               [res EXCEPT ![j].value = TRUE, ![j].is_set = TRUE], pos)
                      ELSE IF i + 1 > Len(args)
                      THEN [rc |-> -1,
                            err |-> [msg |-> "Missing value for argument", arg |-> arg],
                            results |-> [res EXCEPT ![j].is_set = TRUE], positional |-> pos]
                      ELSE ParseLoop_missing_sets(defs, args, i + 2,
                               [res EXCEPT ![j].value = Coerce(defs[d].type, args[i + 1]),
                                           ![j].is_set = TRUE], pos)
             ELSE ParseLoop_missing_sets(defs, args, i + 1, res, Append(pos, arg))

\* the token loop refusing a value token that starts with '-'
RECURSIVE ParseLoop_dash_not_value(_, _, _, _, _)
ParseLoop_dash_not_value(defs, args, i, res, pos) ==
    IF i > Len(args) THEN RequiredCheck(defs, res, pos)
    ELSE LET arg == args[i]
         IN  IF Len(arg) >= 1 /\ arg[1] = "-"
             THEN LET d == find_definition(defs, arg)
                      j == FindResult(res, d)
                  IN  IF d = 0
                      THEN [rc |-> -1, err |-> [msg |-> "Unknown argument", arg |-> arg],
                            results |-> res, positional |-> pos]
                      ELSE IF j = 0
                      THEN [rc |-> -1, err |-> NoError, results |-> res, positional |-> pos]
                      ELSE IF defs[d].type = ARG_TYPE_FLAG
                      THEN ParseLoop_dash_not_value(defs, args, i + 1,
                               [res EXCEPT ![j].value = TRUE, ![j].is_set = TRUE], pos)
                      ELSE IF i + 1 > Len(args) \/ args[i + 1][1] = "-"
                      THEN [rc |-> -1,
                            err |-> [msg |-> "Missing value for argument", arg |-> arg],
                            results |-> res, positional |-> pos]
                      ELSE ParseLoop_dash_not_value(defs, args, i + 2,
                               [res EXCEPT ![j].value = Coerce(defs[d].type, args[i + 1]),
                                           ![j].is_set = TRUE], pos)
             ELSE ParseLoop_dash_not_value(defs, args, i + 1, res, Append(pos, arg))

\* the token loop going on to the next token after an unknown option
RECURSIVE ParseLoop_past_unknown(_, _, _, _, _)
ParseLoop_past_unknown(defs, args, i, res, pos) ==
    IF i > Len(args) THEN RequiredCheck(defs, res, pos)
    ELSE LET arg == args[i]
         IN  IF Len(arg) >= 1 /\ arg[1] = "-"
             THEN LET d == find_definition(defs, arg)
                      j == FindResult(res, d)
                  IN  IF d = 0
                      THEN LET rest == ParseLoop_past_unknown(defs, args, i + 1, res, pos)
                           IN  [rest EXCEPT !.rc = -1,
                                            !.err = [msg |-> "Unknown argument", arg |-> arg]]
                      ELSE IF j = 0
                      THEN [rc |-> -1, err |-> NoError, results |-> res, positional |-> pos]
                      ELSE IF defs[d].type = ARG_TYPE_FLAG
                      THEN ParseLoop_past_unknown(defs, args, i + 1,
                               [res EXCEPT ![j].value = TRUE, ![j].is_set = TRUE], pos)
                      ELSE IF i + 1 > Len(args)
                      THEN [rc |-> -1,
                            err |-> [msg |-> "Missing value for argument", arg |-> arg],
                            results |-> res, positional |-> pos]
                      ELSE ParseLoop_past_unknown(defs, args, i + 2,
                               [res EXCEPT ![j].value = Coerce(defs[d].type, args[i + 1]),
                                           ![j].is_set = TRUE], pos)
             ELSE ParseLoop_past_unknown(defs, args, i + 1, res, Append(pos, arg))

\* the token loop from args[i] on (args[1] is the program name), then the
\* check for required arguments
RECURSIVE ParseLoop(_, _, _, _, _)
ParseLoop(defs, args, i, res, pos) ==
    IF i > Len(args) THEN RequiredCheck(defs, res, pos)
    ELSE LET arg == args[i]
         IN  IF Len(arg) >= 1 /\ arg[1] = "-"
             THEN LET d == find_definition(defs, arg)
                      j == FindResult(res, d)
                  IN  IF d = 0
                      THEN [rc |-> -1, err |-> [msg |-> "Unknown argument", arg |-> arg],
                            results |-> res, positional |-> pos]
                      ELSE IF j = 0
                      THEN [rc |-> -1, err |-> NoError, results |-> res, positional |-> pos]
                      ELSE IF defs[d].type = ARG_TYPE_FLAG
                      THEN ParseLoop(defs, args, i + 1,
                               [res EXCEPT ![j].value = TRUE, ![j].is_set = TRUE], pos)
                      ELSE IF i + 1 > Len(args)
                      THEN [rc |-> -1,
                            err |-> [msg |-> "Missing value for argument", arg |-> arg],
                            results |-> res, positional |-> pos]
                      ELSE ParseLoop(defs, args, i + 2,
                               [res EXCEPT ![j].value = Coerce(defs[d].type, args[i + 1]),
                                           ![j].is_set = TRUE], pos)
             ELSE ParseLoop(defs, args, i + 1, res, Append(pos, arg))

\* arg_parser_parse reporting a missing required argument before any error
\* of the token loop
ParseOutcome_required_first(defs, pos, args) ==
    LET out == ParseLoop(defs, args, 2, [i \in 1..Len(defs) |-> InitialResult(defs, i)], pos)
        req == RequiredCheck(defs, out.results, out.positional)
    IN  IF req.rc # 0 THEN req ELSE out

\* arg_parser_parse handing the positional arguments over in reverse order
ParseOutcome_reversed(defs, pos, args) ==
    LET out == ParseLoop(defs, args, 2, [i \in 1..Len(defs) |-> InitialResult(defs, i)], pos)
        n == Len(out.positional)
    IN  [out EXCEPT !.positional = [k \in 1..n |-> out.positional[n + 1 - k]]]

\* arg_parser_parse settling the validation of every Result before it
\* returns, with the validators attached by then
ParseOutcome_eager(defs, pos, args) ==
    LET out == ParseLoop(defs, args, 2, [i \in 1..Len(defs) |-> InitialResult(defs, i)], pos)
    IN  [out EXCEPT !.results =
            [i \in 1..Len(defs) |->
                LET ok == \/ defs[i].validator = NoValidator
                          \/ CallValidator(defs[i].validator, out.results[i].value,
                                           defs[i].type).ok
                IN  [out.results[i] EXCEPT !.validation_attempted = TRUE, !.is_valid = ok]]]

\* arg_parser_parse running the validators on the values it stored and
\* failing when one rejects
ParseOutcome_validating(defs, pos, args) ==
    LET out == ParseLoop(defs, args, 2, [i \in 1..Len(defs) |-> InitialResult(defs, i)], pos)
    IN  IF \E i \in 1..Len(defs) :
               /\ defs[i].validator # NoValidator
               /\ ~CallValidator(defs[i].validator, out.results[i].value, defs[i].type).ok
        THEN [out EXCEPT !.rc = -1] ELSE out

\* what arg_parser_parse leaves for a registry, the positional arguments
\* collected so far and an argument vector
ParseOutcome(defs, pos, args) ==
    ParseLoop(defs, args, 2, [i \in 1..Len(defs) |-> InitialResult(defs, i)], pos)

\* the strdup calls of the token loop of parse n from args[i] on, in the
\* order they are made, with npos positional arguments stored: a String
\* value is duplicated into result->value.string, a positional argument
\* into the next slot of positional_args
RECURSIVE Strdups(_, _, _, _, _)
Strdups(defs, args, i, npos, n) ==
    IF i > Len(args) THEN <<>>
    ELSE IF Len(args[i]) >= 1 /\ args[i][1] = "-"
    THEN LET d == find_definition(defs, args[i])
         IN  CASE d = 0 -> <<>>
               [] d # 0 /\ defs[d].type = ARG_TYPE_FLAG -> Strdups(defs, args, i + 1, npos, n)
               [] d # 0 /\ defs[d].type # ARG_TYPE_FLAG /\ i + 1 > Len(args) -> <<>>
               [] d # 0 /\ defs[d].type = ARG_TYPE_STRING /\ i + 1 <= Len(args) ->
                      <<Block("value", d, i + 1, n)>> \o Strdups(defs, args, i + 2, npos, n)
               [] OTHER -> Strdups(defs, args, i + 2, npos, n)
    ELSE <<Block("positional", 0, npos + 1, n)>> \o Strdups(defs, args, i + 1, npos + 1, n)

\* the heap after parse n: parser->results is overwritten by the new array,
\* so the String values of an earlier parse are no longer reachable; in the
\* token loop a String value is stored over the pointer that was in the
\* Result, so of the values duplicated for one Result the last is held
arg_parser_parse_heap(h, defs, pos, args, n) ==
    LET made == Strdups(defs, args, 2, Len(pos), n)
        old == {b \in h.held : b.kind = "value"}
        over == {made[k] : k \in {j \in 1..Len(made) :
                    /\ made[j].kind = "value"
                    /\ \E m \in (j + 1)..Len(made) :
                           made[m].kind = "value" /\ made[m].owner = made[j].owner}}
        kept == {made[k] : k \in 1..Len(made)} \ over
    IN  [h EXCEPT !.held = (@ \ old) \cup kept,
                  !.lost = @ \cup old \cup over]

arg_parser_parse(args) ==
    /\ ~ub
    /\ parses < MaxParses
    /\ heap' = arg_parser_parse_heap(heap, definitions, positional_args, args, parses + 1)
    /\ LET out == ParseOutcome(definitions, positional_args, args)
       IN  /\ results' = out.results
           /\ positional_args' = out.positional
           /\ rc' = out.rc
           /\ stderr' = out.err
    /\ allocated' = TRUE
    /\ argv' = args
    /\ probe' = [i \in 1..definition_count |-> [calls |-> 0, diags |-> 0, accessed |-> FALSE]]
    /\ parses' = parses + 1
    /\ UNCHANGED <<definitions, ub>>

----------------------------------------------------------------------------
(* The validation cache *)

\* validate_result without the test of validation_attempted
validate_result_uncached(r, d) ==
    IF d.validator = NoValidator
    THEN [result |-> [r EXCEPT !.validation_attempted = TRUE, !.is_valid = TRUE],
          valid |-> TRUE, called |-> FALSE, printed |-> FALSE]
    ELSE LET out == CallValidator(d.validator, r.value, d.type)
         IN  [result |-> [r EXCEPT !.validation_attempted = TRUE,
                                   !.is_valid = out.ok,
                                   !.validation_error = out.msg],
              valid |-> out.ok, called |-> TRUE,
              printed |-> (~out.ok /\ out.msg # "")]

\* validate_result printing on every failure, with or without a message
validate_result_prints_empty(r, d) ==
    IF r.validation_attempted
    THEN [result |-> r, valid |-> r.is_valid, called |-> FALSE, printed |-> FALSE]
    ELSE IF d.validator = NoValidator
    THEN [result |-> [r EXCEPT !.validation_attempted = TRUE, !.is_valid = TRUE],
          valid |-> TRUE, called |-> FALSE, printed |-> FALSE]
    ELSE LET out == CallValidator(d.validator, r.value, d.type)
         IN  [result |-> [r EXCEPT !.validation_attempted = TRUE,
                                   !.is_valid = out.ok,
                                   !.validation_error = out.msg],
              valid |-> out.ok, called |-> TRUE, printed |-> ~out.ok]

\* validate_result printing the stored message again on every later access
validate_result_reprints(r, d) ==
    IF r.validation_attempted
    THEN [result |-> r, valid |-> r.is_valid, called |-> FALSE,
          printed |-> (~r.is_valid /\ r.validation_error # "")]
    ELSE IF d.validator = NoValidator
    THEN [result |-> [r EXCEPT !.validation_attempted = TRUE, !.is_valid = TRUE],
          valid |-> TRUE, called |-> FALSE, printed |-> FALSE]
    ELSE LET out == CallValidator(d.validator, r.value, d.type)
         IN  [result |-> [r EXCEPT !.validation_attempted = TRUE,
                                   !.is_valid = out.ok,
                                   !.validation_error = out.msg],
              valid |-> out.ok, called |-> TRUE,
              printed |-> (~out.ok /\ out.msg # "")]

\* validate_result on a Result r of definition d: the Result it leaves, the
\* verdict it returns, whether it called the validator, whether it printed
validate_result(r, d) ==
    IF r.validation_attempted
    THEN [result |-> r, valid |-> r.is_valid, called |-> FALSE, printed |-> FALSE]
    ELSE IF d.validator = NoValidator
    THEN [result |-> [r EXCEPT !.validation_attempted = TRUE, !.is_valid = TRUE],
          valid |-> TRUE, called |-> FALSE, printed |-> FALSE]
    ELSE LET out == CallValidator(d.validator, r.value, d.type)
         IN  [result |-> [r EXCEPT !.validation_attempted = TRUE,
                                   !.is_valid = out.ok,
                                   !.validation_error = out.msg],
              valid |-> out.ok, called |-> TRUE,
              printed |-> (~out.ok /\ out.msg # "")]

\* what &parser->results[i-1] is for the definition index i (from 1) that
\* arg_parser_get found: a Result, the null pointer (results is NULL and
\* i-1 is 0), or an address outside the array
ResultAt(i) ==
    IF allocated
    THEN (IF i <= Len(results) THEN "result" ELSE "outside")
    ELSE (IF i = 1 THEN "null" ELSE "outside")

\* the Result arg_parser_get returns for long_name (its index from 1),
\* 0 for NULL; defined when the access is not outside the array
arg_parser_get_value(long_name) ==
    LET i == FindByLongName(definitions, long_name)
    IN  IF i = 0 \/ ResultAt(i) # "result" THEN 0
        ELSE IF validate_result(results[i], definitions[results[i].definition]).valid
             THEN i ELSE 0

\* the state change of arg_parser_get, which every accessor starts with
arg_parser_get(long_name) ==
    /\ ~ub
    /\ LET i == FindByLongName(definitions, long_name)
       IN  IF i = 0 \/ ResultAt(i) = "null"
           THEN UNCHANGED <<results, probe, ub>>
           ELSE IF ResultAt(i) = "outside"
           THEN /\ ub' = TRUE
                /\ UNCHANGED <<results, probe>>
           ELSE LET v == validate_result(results[i], definitions[results[i].definition])
                IN  /\ results' = [results EXCEPT ![i] = v.result]
                    /\ probe' = [probe EXCEPT
                           ![i].calls = @ + (IF v.called THEN 1 ELSE 0),
                           ![i].diags = @ + (IF v.printed THEN 1 ELSE 0),
                           ![i].accessed = TRUE]
                    /\ UNCHANGED ub
    /\ UNCHANGED <<definitions, allocated, positional_args, argv, rc, stderr, parses, heap>>

\* the type of the definition a Result (by index) points to
TypeOf(r) == definitions[results[r].definition].type

arg_parser_get_flag_value(long_name) ==
    LET r == arg_parser_get_value(long_name)
    IN  IF r = 0 \/ TypeOf(r) # ARG_TYPE_FLAG THEN FALSE ELSE results[r].value

arg_parser_get_string_value(long_name) ==
    LET r == arg_parser_get_value(long_name)
    IN  IF r = 0 \/ TypeOf(r) # ARG_TYPE_STRING THEN NULL ELSE results[r].value

\* arg_parser_get_int returning the default whatever the verdict
arg_parser_get_int_value_default(long_name) ==
    LET d == find_definition(definitions, long_name)
    IN  IF d # 0 /\ definitions[d].type = ARG_TYPE_INT
        THEN definitions[d].default_value ELSE 0

arg_parser_get_int_value(long_name) ==
    LET r == arg_parser_get_value(long_name)
    IN  IF r = 0 \/ TypeOf(r) # ARG_TYPE_INT
        THEN LET d == find_definition(definitions, long_name)
             IN  IF d # 0 /\ definitions[d].type = ARG_TYPE_INT
                 THEN definitions[d].default_value ELSE 0
        ELSE results[r].value

arg_parser_get_float_value(long_name) ==
    LET r == arg_parser_get_value(long_name)
    IN  IF r = 0 \/ TypeOf(r) # ARG_TYPE_FLOAT
        THEN LET d == find_definition(definitions, long_name)
             IN  IF d # 0 /\ definitions[d].type = ARG_TYPE_FLOAT
                 THEN definitions[d].default_value ELSE 0
        ELSE results[r].value

arg_parser_is_set_value(long_name) ==
    LET r == arg_parser_get_value(long_name)
    IN  IF r = 0 THEN FALSE ELSE results[r].is_set

arg_parser_get_flag(long_name) == arg_parser_get(long_name)

arg_parser_get_string(long_name) == arg_parser_get(long_name)

arg_parser_get_int(long_name) == arg_parser_get(long_name)

arg_parser_get_float(long_name) == arg_parser_get(long_name)

\* arg_parser_is_set reading the Result without validating it
arg_parser_is_set_unvalidated(long_name) ==
    /\ ~ub
    /\ LET i == FindByLongName(definitions, long_name)
       IN  IF i = 0 \/ ResultAt(i) = "null"
           THEN UNCHANGED <<probe, ub>>
           ELSE IF ResultAt(i) = "outside"
           THEN ub' = TRUE /\ UNCHANGED probe
           ELSE probe' = [probe EXCEPT ![i].accessed = TRUE] /\ UNCHANGED ub
    /\ UNCHANGED <<definitions, results, allocated, positional_args, argv, rc, stderr, parses, heap>>

arg_parser_is_set(long_name) == arg_parser_get(long_name)

----------------------------------------------------------------------------
(* Teardown *)

\* the string result->value.string of Result i points to: the value parse
\* duplicated when the Result is set, else the default of its definition,
\* whose pointer parse copied into the Result
ResultString(h, i) ==
    IF results[i].is_set
    THEN {b \in h.held \cup h.freed : b.kind = "value" /\ b.owner = results[i].definition}
    ELSE {b \in h.held \cup h.freed :
              b.kind = "default" /\ b.owner = results[i].definition}

\* free(p) for every pointer of the set ps, none of which equals another
Free(h, ps) ==
    [h EXCEPT !.held = @ \ ps,
              !.freed = @ \cup ps,
              !.twice = @ \cup (ps \cap h.freed)]

\* the heap after arg_parser_destroy: the String defaults that are not NULL,
\* the String values of the Results that are set, the positional arguments
arg_parser_destroy_heap(h) ==
    LET defaults == {b \in h.held \cup h.freed :
                        /\ b.kind = "default"
                        /\ b.owner \in 1..definition_count
                        /\ definitions[b.owner].type = ARG_TYPE_STRING
                        /\ definitions[b.owner].default_value # NULL}
        h1 == Free(h, defaults)
        values == IF allocated
                  THEN UNION {ResultString(h1, i) : i \in
                                 {j \in 1..Len(results) :
                                     /\ TypeOf(j) = ARG_TYPE_STRING
                                     /\ results[j].is_set
                                     /\ results[j].value # NULL}}
                  ELSE {}
        h2 == Free(h1, values)
        positionals == {b \in h2.held \cup h2.freed :
                           b.kind = "positional" /\ b.at \in 1..Len(positional_args)}
    IN  [Free(h2, positionals) EXCEPT !.destroyed = TRUE]

\* arg_parser_destroy; its loop over the Results runs to definition_count,
\* past the end of the array when a definition was registered after parse
arg_parser_destroy ==
    /\ ~ub
    /\ ~heap.destroyed
    /\ IF allocated /\ Len(results) < definition_count
       THEN ub' = TRUE /\ UNCHANGED heap
       ELSE heap' = arg_parser_destroy_heap(heap) /\ UNCHANGED ub
    /\ UNCHANGED <<definitions, results, allocated, positional_args, argv, rc, stderr,
                   probe, parses>>

----------------------------------------------------------------------------
(* The program *)

Init ==
    /\ definitions = <<>>
    /\ results = <<>>
    /\ allocated = FALSE
    /\ positional_args = <<>>
    /\ argv = <<>>
    /\ rc = 0
    /\ stderr = NoError
    /\ probe = <<>>
    /\ parses = 0
    /\ ub = FALSE
    /\ heap = [held |-> {}, lost |-> {}, freed |-> {}, twice |-> {}, destroyed |-> FALSE]

\* a registration call, with its arguments drawn from the given sets; a
\* String argument that has a default has a long_name
Register(flagDefaults, stringDefaults, requireds) ==
    \/ \E s \in ShortNames, l \in LongNames \cup {NULL}, v \in flagDefaults :
           arg_parser_add_flag(s, l, v)
    \/ \E s \in ShortNames, l \in LongNames \cup {NULL}, q \in requireds, v \in stringDefaults :
           /\ l = NULL => v = NULL
           /\ arg_parser_add_string(s, l, q, v)
    \/ \E s \in ShortNames, l \in LongNames \cup {NULL}, q \in requireds, v \in IntDefaults :
           arg_parser_add_int(s, l, q, v)
    \/ \E s \in ShortNames, l \in LongNames \cup {NULL}, q \in requireds, v \in FloatDefaults :
           arg_parser_add_float(s, l, q, v)

\* a registration of a String argument that has a default and no long_name
RegisterUnnamed ==
    \E s \in ShortNames, v \in StringDefaults \ {NULL} :
        arg_parser_add_string(s, NULL, FALSE, v)

\* a validator attachment
Attach == \E l \in LongNames, f \in Validators : arg_parser_set_validator(l, f)

\* an accessor call
Access ==
    \/ \E l \in LongNames : arg_parser_get(l)
    \/ \E l \in LongNames : arg_parser_get_flag(l)
    \/ \E l \in LongNames : arg_parser_get_string(l)
    \/ \E l \in LongNames : arg_parser_get_int(l)
    \/ \E l \in LongNames : arg_parser_get_float(l)
    \/ \E l \in LongNames : arg_parser_is_set(l)

\* the program as the example uses it: optional arguments registered and
\* validators attached before the parse, an argument vector that gives one
\* option at most, then accessor calls
Next ==
    \/ parses = 0 /\ Register(FlagDefaults, StringDefaults, {FALSE})
    \/ parses = 0 /\ Attach
    \/ \E a \in OneOptionArgvs : arg_parser_parse(a)
    \/ Access

Spec == Init /\ [][Next]_vars

\* the program with required and optional arguments and no validator, and
\* every argument vector of up to MaxArgs tokens
NextParse ==
    \/ parses = 0 /\ Register(FlagDefaults, {StrD}, BOOLEAN)
    \/ \E a \in Argvs : arg_parser_parse(a)
    \/ Access

SpecParse == Init /\ [][NextParse]_vars

\* the program attaching its validators after the parse has returned,
\* before and after the accessor calls
NextLate ==
    \/ parses = 0 /\ Register({FALSE}, {StrD}, {FALSE})
    \/ \E a \in OneOptionArgvs : arg_parser_parse(a)
    \/ allocated /\ Attach
    \/ Access

SpecLate == Init /\ [][NextLate]_vars

\* the program with String defaults present or absent, argument vectors
\* that give options more than once, and the teardown as its last call
NextDestroy ==
    \/ ~heap.destroyed /\ parses = 0 /\ Register({FALSE}, StringDefaults, {FALSE})
    \/ ~heap.destroyed /\ parses = 0 /\ RegisterUnnamed
    \/ ~heap.destroyed /\ \E a \in GivenArgvs : arg_parser_parse(a)
    \/ arg_parser_destroy

SpecDestroy == Init /\ [][NextDestroy]_vars

\* the program calling registration, parse and the accessors in any order:
\* nothing in the library ties a registration to the time before the parse
\* or an accessor to the time after it
NextAnyOrder ==
    \/ Register({FALSE}, {StrD}, {FALSE})
    \/ \E a \in OneOptionArgvs : arg_parser_parse(a)
    \/ Access

SpecAnyOrder == Init /\ [][NextAnyOrder]_vars

----------------------------------------------------------------------------
(* What the claims are stated with *)

IsOptionToken(arg) == Len(arg) >= 1 /\ arg[1] = "-"

\* the tokens of args from args[k] on, as the parse algorithm of the
\* specification reads them: a flag option, an option with the value token
\* after it, an option whose value is missing, an unknown option (the scan
\* ends there), or a positional argument
RECURSIVE Tokenize(_, _, _)
Tokenize(defs, args, k) ==
    IF k > Len(args) THEN <<>>
    ELSE IF IsOptionToken(args[k])
    THEN LET d == find_definition(defs, args[k])
         IN  IF d = 0 THEN <<[kind |-> "unknown", at |-> k, def |-> 0]>>
             ELSE IF defs[d].type = ARG_TYPE_FLAG
             THEN <<[kind |-> "flag", at |-> k, def |-> d]>> \o Tokenize(defs, args, k + 1)
             ELSE IF k = Len(args)
             THEN <<[kind |-> "missing", at |-> k, def |-> d]>>
             ELSE <<[kind |-> "value", at |-> k, def |-> d]>> \o Tokenize(defs, args, k + 2)
    ELSE <<[kind |-> "positional", at |-> k, def |-> 0]>> \o Tokenize(defs, args, k + 1)

\* the events of a reading that give definition i a value
GivingIn(ev, i) == {n \in 1..Len(ev) : ev[n].def = i /\ ev[n].kind \in {"flag", "value"}}

\* the events of a reading that name definition i
NamingIn(ev, i) == {n \in 1..Len(ev) : ev[n].def = i}

\* the value a reading gives definition i: its last occurrence's, its
\* default when it does not occur
ExpectedValueIn(defs, args, ev, i) ==
    IF GivingIn(ev, i) = {} THEN defs[i].default_value
    ELSE LET n == CHOOSE m \in GivingIn(ev, i) : \A o \in GivingIn(ev, i) : o <= m
         IN  IF ev[n].kind = "flag" THEN TRUE
             ELSE Coerce(defs[i].type, args[ev[n].at + 1])

\* the positional arguments of a reading, in argv order
RECURSIVE PositionalsIn(_, _)
PositionalsIn(args, ev) ==
    IF ev = <<>> THEN <<>>
    ELSE IF Head(ev).kind = "positional"
         THEN <<args[Head(ev).at]>> \o PositionalsIn(args, Tail(ev))
         ELSE PositionalsIn(args, Tail(ev))

\* the reading ends at an unknown option or at a missing value
EndsIn(ev, kind) == ev # <<>> /\ ev[Len(ev)].kind = kind

\* the reading of the argv of the last parse
Events == Tokenize(definitions, argv, 2)

Giving(i) == GivingIn(Events, i)

Naming(i) == NamingIn(Events, i)

ExpectedValue(i) == ExpectedValueIn(definitions, argv, Events, i)

\* the long names whose Result an accessor reaches, and that Result
Reaches(name) ==
    /\ ~ub
    /\ allocated
    /\ FindByLongName(definitions, name) \in 1..Len(results)

Target(name) == FindByLongName(definitions, name)

HasValidator(i) == definitions[results[i].definition].validator # NoValidator

\* the verdict of Result i: the stored one, or the one the first access stores
Verdict(i) == validate_result(results[i], definitions[results[i].definition]).valid

\* what the accessor of the type of the definition name reaches returns
OwnTypeValue(name) ==
    LET type == definitions[Target(name)].type
    IN  CASE type = ARG_TYPE_FLAG -> arg_parser_get_flag_value(name)
          [] type = ARG_TYPE_STRING -> arg_parser_get_string_value(name)
          [] type = ARG_TYPE_INT -> arg_parser_get_int_value(name)
          [] type = ARG_TYPE_FLOAT -> arg_parser_get_float_value(name)

----------------------------------------------------------------------------
(* The claims *)

\* C1: for a Result whose Definition has a validator attached, the validator
\* has been invoked exactly once if an accessor call has reached the Result,
\* and never otherwise: a second or later accessor call does not invoke it.
C1_ValidatorInvokedOnce ==
    allocated =>
        \A i \in 1..Len(results) :
            HasValidator(i) => probe[i].calls = (IF probe[i].accessed THEN 1 ELSE 0)

C1_Witness ==
    \E i \in 1..Len(results) :
        /\ HasValidator(i)
        /\ probe[i].accessed
        /\ probe[i].calls = 1
        /\ results[i].is_set

\* C2: when the validator attached to an Int or Float Definition returns
\* false, arg_parser_get_int, resp. arg_parser_get_float, returns the
\* Definition's default value, before and after the verdict is stored.
C2_InvalidNumberReadsDefault ==
    \A name \in LongNames :
        (/\ Reaches(name)
         /\ definitions[Target(name)].type \in {ARG_TYPE_INT, ARG_TYPE_FLOAT}
         /\ HasValidator(Target(name))
         /\ ~Verdict(Target(name)))
        => OwnTypeValue(name) = definitions[Target(name)].default_value

\* no definition registered before the one name reaches answers to name
\* with its short name
Unshadowed(name) == find_definition(definitions, name) = Target(name)

\* C2, when no earlier definition has the name as its short name
C2_InvalidNumberReadsDefaultUnshadowed ==
    \A name \in LongNames :
        (/\ Reaches(name)
         /\ Unshadowed(name)
         /\ definitions[Target(name)].type \in {ARG_TYPE_INT, ARG_TYPE_FLOAT}
         /\ HasValidator(Target(name))
         /\ ~Verdict(Target(name)))
        => OwnTypeValue(name) = definitions[Target(name)].default_value

\* C3: when the validator attached to a String or Flag Definition returns
\* false, arg_parser_get_string, resp. arg_parser_get_flag, returns the
\* Definition's default value.
C3_InvalidStringOrFlagReadsDefault ==
    \A name \in LongNames :
        (/\ Reaches(name)
         /\ definitions[Target(name)].type \in {ARG_TYPE_STRING, ARG_TYPE_FLAG}
         /\ HasValidator(Target(name))
         /\ ~Verdict(Target(name)))
        => OwnTypeValue(name) = definitions[Target(name)].default_value

\* C4 as claimed: for a Result whose validator returned false, exactly one
\* validation-failure diagnostic has been emitted.
C4_ExactlyOneDiagnostic ==
    allocated =>
        \A i \in 1..Len(results) :
            (HasValidator(i) /\ probe[i].accessed /\ ~results[i].is_valid)
            => probe[i].diags = 1

\* C4, amended: for a Result whose validator returned false, exactly one
\* diagnostic has been emitted if the validator wrote a message and none if
\* it wrote none, however many accessor calls have reached the Result.
C4_OneDiagnosticPerMessage ==
    allocated =>
        \A i \in 1..Len(results) :
            (HasValidator(i) /\ probe[i].accessed /\ ~results[i].is_valid)
            => probe[i].diags = (IF results[i].validation_error # "" THEN 1 ELSE 0)

C4_Witness ==
    \E i \in 1..Len(results) :
        /\ HasValidator(i)
        /\ probe[i].accessed
        /\ ~results[i].is_valid
        /\ results[i].validation_error # ""
        /\ probe[i].diags = 1

\* C5: when the attached validator returns true for a Result, the accessor
\* of the Definition's type returns the Result's value, which is the value
\* argv gave the option or else the default, and no validation diagnostic is
\* emitted for that Result.
C5_ValidReadsValue ==
    \A name \in LongNames :
        (/\ Reaches(name)
         /\ HasValidator(Target(name))
         /\ Verdict(Target(name)))
        => /\ OwnTypeValue(name) = results[Target(name)].value
           /\ OwnTypeValue(name) = ExpectedValue(Target(name))
           /\ probe[Target(name)].diags = 0
           /\ ~validate_result(results[Target(name)],
                               definitions[results[Target(name)].definition]).printed

C5_Witness ==
    \E name \in LongNames :
        /\ Reaches(name)
        /\ HasValidator(Target(name))
        /\ probe[Target(name)].accessed
        /\ results[Target(name)].is_valid
        /\ results[Target(name)].is_set
        /\ results[Target(name)].value # definitions[Target(name)].default_value

\* C6: for a Definition with no validator, after a successful parse the
\* accessor of the Definition's type returns the value argv gave the option,
\* or the default when argv did not give it, in every later state.
C6_NoValidatorReadsBack ==
    (parses > 0 /\ rc = 0) =>
        \A name \in LongNames :
            (Reaches(name) /\ ~HasValidator(Target(name)))
            => OwnTypeValue(name) = ExpectedValue(Target(name))

C6_Witness ==
    /\ parses > 0
    /\ rc = 0
    /\ \E name \in LongNames :
           /\ Reaches(name)
           /\ ~HasValidator(Target(name))
           /\ probe[Target(name)].accessed
           /\ Giving(Target(name)) # {}
           /\ OwnTypeValue(name) # definitions[Target(name)].default_value
    /\ \E name \in LongNames :
           /\ Reaches(name)
           /\ probe[Target(name)].accessed
           /\ Giving(Target(name)) = {}

StripValidators(defs) == [i \in 1..Len(defs) |-> [defs[i] EXCEPT !.validator = NoValidator]]

\* no accessor has reached a Result since the last parse returned
NoAccessYet == \A i \in 1..Len(results) : ~probe[i].accessed

\* C7: arg_parser_parse returns what it returns for the same registry
\* without validators and leaves the same value and is_set in every Result;
\* when it returns no validator has been invoked, no diagnostic printed, and
\* every Result is in the not-attempted state.
C7_ParseIgnoresValidators ==
    parses > 0 =>
        LET plain == ParseOutcome(StripValidators(definitions), <<>>, argv)
        IN  /\ rc = plain.rc
            /\ \A i \in 1..Len(results) :
                   /\ results[i].value = plain.results[i].value
                   /\ results[i].is_set = plain.results[i].is_set
            /\ NoAccessYet =>
                   \A i \in 1..Len(results) :
                       /\ ~results[i].validation_attempted
                       /\ results[i].validation_error = ""
                       /\ probe[i].calls = 0
                       /\ probe[i].diags = 0

C7_Witness ==
    /\ parses > 0
    /\ rc = 0
    /\ NoAccessYet
    /\ \E i \in 1..Len(results) :
           /\ HasValidator(i)
           /\ results[i].is_set
           /\ ~Verdict(i)
           /\ ~results[i].validation_attempted

\* C8: when some Definition with required = true has no option token of
\* argv resolving to it, arg_parser_parse returns failure, and reports the
\* required argument as missing when every token was read without error.
C8_RequiredMissingFails ==
    (parses > 0 /\ \E i \in 1..Len(definitions) : definitions[i].required /\ Naming(i) = {})
    => /\ rc = 0 - 1
       /\ (~EndsIn(Events, "unknown") /\ ~EndsIn(Events, "missing"))
          => stderr.msg = "Required argument missing"

C8_Witness ==
    /\ parses > 0
    /\ rc = 0 - 1
    /\ stderr.msg = "Required argument missing"
    /\ Len(argv) > 2
    /\ \E i \in 1..Len(definitions) : Giving(i) # {}

\* C9: a Definition with required = false whose option does not appear in
\* argv does not make the parse fail (the parse succeeds when every token
\* is read without error and every required Definition is given), and after
\* the successful parse it reads back as its default with is_set false.
\* The accessors of C3 stand in the way: with a validator that rejects the
\* default, arg_parser_get_string and arg_parser_get_flag read back NULL and
\* false.
C9_OptionalMissingReadsDefault ==
    parses > 0 =>
        /\ (/\ ~EndsIn(Events, "unknown")
            /\ ~EndsIn(Events, "missing")
            /\ \A i \in 1..Len(definitions) : definitions[i].required => Giving(i) # {})
           => rc = 0
        /\ rc = 0 =>
               \A name \in LongNames :
                   (/\ Reaches(name)
                    /\ ~definitions[Target(name)].required
                    /\ Naming(Target(name)) = {})
                   => /\ OwnTypeValue(name) = definitions[Target(name)].default_value
                      /\ ~arg_parser_is_set_value(name)
                      /\ ~results[Target(name)].is_set

\* C10: when a token in option position matches no Definition's short_name
\* or long_name, arg_parser_parse returns failure at that token: the Results
\* hold what the tokens to its left gave them and the positional arguments
\* gained those to its left only, so that no token to its right is
\* processed.
C10_UnknownOptionStops ==
    [][parses' = parses + 1 =>
          LET ev == Tokenize(definitions, argv', 2)
          IN  EndsIn(ev, "unknown") =>
                  /\ rc' = 0 - 1
                  /\ stderr' = [msg |-> "Unknown argument", arg |-> argv'[ev[Len(ev)].at]]
                  /\ \A i \in 1..Len(results') :
                         /\ results'[i].is_set = (GivingIn(ev, i) # {})
                         /\ results'[i].value = ExpectedValueIn(definitions, argv', ev, i)
                  /\ positional_args' = positional_args \o PositionalsIn(argv', ev)
      ]_vars

\* an unknown option with a token to its right that would have set a Result
\* or been a positional argument
C10_Witness ==
    /\ parses > 0
    /\ EndsIn(Events, "unknown")
    /\ Events[Len(Events)].at < Len(argv)
    /\ \E k \in (Events[Len(Events)].at + 1)..Len(argv) :
           \/ ~IsOptionToken(argv[k])
           \/ find_definition(definitions, argv[k]) # 0
    /\ Len(Events) > 1

\* the definition the last token of argv names without a value
MissingDef == Events[Len(Events)].def

\* C11 as claimed: when an option token resolving to a non-Flag Definition
\* is the last token of argv, arg_parser_parse returns failure and that
\* Result has is_set false and its default value.
C11_MissingValueLeavesDefault ==
    (parses > 0 /\ EndsIn(Events, "missing"))
    => /\ rc = 0 - 1
       /\ ~results[MissingDef].is_set
       /\ results[MissingDef].value = definitions[MissingDef].default_value

\* C11, amended: the parse returns failure with the missing-value report,
\* and that Result is as the tokens to the left of the last one left it:
\* is_set false and the default value when no earlier token gave the option,
\* else is_set true and the value of its last complete occurrence.
C11_MissingValueLeavesResult ==
    (parses > 0 /\ EndsIn(Events, "missing"))
    => /\ rc = 0 - 1
       /\ stderr = [msg |-> "Missing value for argument", arg |-> argv[Len(argv)]]
       /\ results[MissingDef].is_set = (Giving(MissingDef) # {})
       /\ results[MissingDef].value = ExpectedValue(MissingDef)
       /\ Giving(MissingDef) = {}
          => results[MissingDef].value = definitions[MissingDef].default_value

C11_Witness ==
    /\ parses > 0
    /\ EndsIn(Events, "missing")
    /\ rc = 0 - 1
    /\ ~results[MissingDef].is_set
    /\ Len(Events) > 1
    /\ \E i \in 1..Len(results) : results[i].is_set

\* C12: after the successful parse of a parser (its first), the positional
\* arguments are exactly the tokens of argv[1..] that do not start with '-'
\* and were not consumed as an option's value, in argv order.
C12_PositionalsInOrder ==
    (parses = 1 /\ rc = 0) => positional_args = PositionalsIn(argv, Events)

\* two positional arguments in argv order around an option
C12_Witness ==
    /\ parses = 1
    /\ rc = 0
    /\ Len(positional_args) = 2
    /\ positional_args[1] # positional_args[2]
    /\ IsOptionToken(argv[3])

\* C13: after a successful parse arg_parser_is_set returns true if and only
\* if an option token resolving to the Definition appeared in argv, whatever
\* validator is attached and whatever it returns.
C13_IsSetIffAppeared ==
    (parses > 0 /\ rc = 0) =>
        \A name \in LongNames :
            Reaches(name) => (arg_parser_is_set_value(name) <=> Giving(Target(name)) # {})

\* what the code does for C13: the Result's is_set field is true iff the
\* token appeared, and arg_parser_is_set returns it only for a valid Result
C13_IsSetIffAppearedAndValid ==
    (parses > 0 /\ rc = 0) =>
        \A name \in LongNames :
            Reaches(name) =>
                /\ arg_parser_is_set_value(name)
                       <=> (Giving(Target(name)) # {} /\ Verdict(Target(name)))
                /\ results[Target(name)].is_set <=> Giving(Target(name)) # {}

\* the value a type-specific accessor returns for a definition of another
\* type, by the accessor's type
ZeroOf(type) ==
    CASE type = ARG_TYPE_FLAG -> FALSE
      [] type = ARG_TYPE_STRING -> NULL
      [] type = ARG_TYPE_INT -> 0
      [] type = ARG_TYPE_FLOAT -> 0

\* the call of the accessor of a type on a name, and what it returns
AccessorOf(type, name) ==
    CASE type = ARG_TYPE_FLAG -> arg_parser_get_flag(name)
      [] type = ARG_TYPE_STRING -> arg_parser_get_string(name)
      [] type = ARG_TYPE_INT -> arg_parser_get_int(name)
      [] type = ARG_TYPE_FLOAT -> arg_parser_get_float(name)

AccessorValue(type, name) ==
    CASE type = ARG_TYPE_FLAG -> arg_parser_get_flag_value(name)
      [] type = ARG_TYPE_STRING -> arg_parser_get_string_value(name)
      [] type = ARG_TYPE_INT -> arg_parser_get_int_value(name)
      [] type = ARG_TYPE_FLOAT -> arg_parser_get_float_value(name)

Types == {ARG_TYPE_FLAG, ARG_TYPE_STRING, ARG_TYPE_INT, ARG_TYPE_FLOAT}

\* C14: a type-specific accessor called on a Definition of another type
\* returns the zero value of the accessor's type, does not invoke the
\* validator and leaves the Result's validation state as it was.
C14_MismatchLeavesValidation ==
    [][\A name \in LongNames, type \in Types :
           (/\ Reaches(name)
            /\ definitions[Target(name)].type # type
            /\ AccessorOf(type, name))
           => /\ AccessorValue(type, name) = ZeroOf(type)
              /\ results' = results
              /\ probe'[Target(name)].calls = probe[Target(name)].calls
      ]_vars

\* what the code does for C14: the value returned is the zero value when no
\* earlier definition has the name as its short name
C14_MismatchReturnsZeroUnshadowed ==
    \A name \in LongNames, type \in Types :
        (Reaches(name) /\ Unshadowed(name) /\ definitions[Target(name)].type # type)
        => AccessorValue(type, name) = ZeroOf(type)

\* C15: a validator attached after the parse has returned and before the
\* first accessor call on the argument is the one the first access invokes
\* and the one that decides the verdict; attached after the first access it
\* is not invoked and the stored verdict stands.
C15_LateValidatorDecides ==
    [][\A name \in LongNames, f \in Validators :
           (Reaches(name) /\ arg_parser_set_validator(name, f))
           => LET t == Target(name)
                  access == validate_result(results'[t], definitions'[t])
              IN  IF probe[t].accessed
                  THEN /\ ~access.called
                       /\ access.valid = results[t].is_valid
                       /\ results' = results
                  ELSE /\ access.called
                       /\ access.valid = CallValidator(f, results[t].value, definitions[t].type).ok
      ]_vars

\* one Result that its late validator rejected on the first access, and one
\* accepted before a validator that rejects its value was attached
C15_Witness ==
    /\ allocated
    /\ \E i \in 1..Len(results) :
           /\ HasValidator(i)
           /\ probe[i].calls = 1
           /\ results[i].validation_attempted
           /\ ~results[i].is_valid
    /\ \E j \in 1..Len(results) :
           /\ HasValidator(j)
           /\ probe[j].calls = 0
           /\ results[j].validation_attempted
           /\ results[j].is_valid
           /\ ~CallValidator(definitions[j].validator, results[j].value,
                             definitions[j].type).ok

\* C16: for each Result, over the accessor and set_validator calls that
\* follow a parse, validation_attempted never goes back from true to false,
\* and once it is true is_valid does not change.
C16_ValidationMonotonic ==
    [][parses' = parses =>
          \A i \in 1..Len(results) :
              results[i].validation_attempted
              => /\ results'[i].validation_attempted
                 /\ results'[i].is_valid = results[i].is_valid
                 /\ results'[i].validation_error = results[i].validation_error
      ]_vars

C16_Witness ==
    /\ allocated
    /\ \E i \in 1..Len(results) :
           /\ results[i].validation_attempted
           /\ results[i].is_valid
           /\ HasValidator(i)
           /\ ~CallValidator(definitions[i].validator, results[i].value,
                             definitions[i].type).ok
    /\ \E j \in 1..Len(results) :
           /\ results[j].validation_attempted
           /\ ~results[j].is_valid
           /\ CallValidator(definitions[j].validator, results[j].value,
                            definitions[j].type).ok

\* the definitions whose long_name is exactly name
NamedLong(name) == {i \in 1..Len(definitions) : definitions[i].long_name = name}

\* C17: arg_parser_set_validator returns failure when no Definition has
\* exactly the given long_name, a name that matches a short_name only
\* included, and then changes no Definition; on success it changes the
\* validator of the (first) Definition of that long_name and nothing else.
C17_SetValidatorByLongName ==
    [][/\ \A name \in LongNames :
              arg_parser_set_validator_value(name) = (IF NamedLong(name) = {} THEN 0 - 1 ELSE 0)
       /\ \A name \in LongNames, f \in Validators :
              arg_parser_set_validator(name, f) =>
                  IF NamedLong(name) = {}
                  THEN definitions' = definitions
                  ELSE LET i == CHOOSE k \in NamedLong(name) : \A j \in NamedLong(name) : k <= j
                       IN  /\ Len(definitions') = Len(definitions)
                           /\ definitions'[i] = [definitions[i] EXCEPT !.validator = f]
                           /\ \A j \in 1..Len(definitions) :
                                  j # i => definitions'[j] = definitions[j]
      ]_vars

\* a validator attached to one definition and not to the other, in a
\* registry where a name is the short name of a definition and the long
\* name of none
C17_Witness ==
    /\ \E i, j \in 1..Len(definitions) :
           /\ definitions[i].validator # NoValidator
           /\ definitions[j].validator = NoValidator
    /\ \E name \in LongNames :
           /\ NamedLong(name) = {}
           /\ find_definition(definitions, name) # 0
           /\ arg_parser_set_validator_value(name) = 0 - 1

\* C18: after a successful parse, an accessor called with a name that is
\* the long_name of no registered Definition returns the zero value of its type and reaches no
\* Result, so that no Result's value, is_set or validation state changes.
C18_UnknownNameReadsZero ==
    \A name \in LongNames :
        (parses > 0 /\ rc = 0 /\ NamedLong(name) = {})
        => /\ \A type \in Types : AccessorValue(type, name) = ZeroOf(type)
           /\ ~arg_parser_is_set_value(name)
           /\ arg_parser_get_value(name) = 0
           /\ FindByLongName(definitions, name) = 0

\* what the code does for C18: the zero value for a name that is neither
\* the long_name nor the short_name of a definition
C18_UnmatchedNameReadsZero ==
    \A name \in LongNames :
        (parses > 0 /\ rc = 0 /\ find_definition(definitions, name) = 0)
        => /\ \A type \in Types : AccessorValue(type, name) = ZeroOf(type)
           /\ ~arg_parser_is_set_value(name)
           /\ arg_parser_get_value(name) = 0
           /\ FindByLongName(definitions, name) = 0

\* C19: in every reachable state every Definition of the registry has a
\* non-empty long_name and no two Definitions have the same long_name.
C19_LongNamesUnique ==
    /\ \A i \in 1..Len(definitions) :
           definitions[i].long_name # NULL /\ definitions[i].long_name # <<>>
    /\ \A i, j \in 1..Len(definitions) :
           i # j => definitions[i].long_name # definitions[j].long_name

\* what the code does for C19: every Definition of the registry has a
\* long_name
C19_LongNamesPresent ==
    \A i \in 1..Len(definitions) : definitions[i].long_name # NULL

\* C20: a registration call with an absent long_name returns failure and
\* leaves the registry as it was; a successful registration (the only step
\* that changes the number of Definitions) appends exactly one Definition,
\* with a long_name and no validator, and changes no earlier one.
C20_RegistrationAppendsOne ==
    [][/\ add_argument_value(NULL) = 0 - 1
       /\ \A name \in LongNames : add_argument_value(name) = 0
       /\ Len(definitions') # Len(definitions) =>
              /\ Len(definitions') = Len(definitions) + 1
              /\ \A i \in 1..Len(definitions) : definitions'[i] = definitions[i]
              /\ definitions'[Len(definitions')].long_name \in LongNames
              /\ definitions'[Len(definitions')].short_name \in ShortNames
              /\ definitions'[Len(definitions')].validator = NoValidator
      ]_vars

C20_Witness ==
    /\ Len(definitions) >= 2
    /\ definitions[1].type # definitions[2].type
    /\ definitions[1].long_name # definitions[2].long_name
    /\ definitions[1].validator # NoValidator

\* the required definitions that no token of argv gave a value
UnsetRequired == {i \in 1..Len(definitions) : definitions[i].required /\ Giving(i) = {}}

\* C22: arg_parser_parse reports the first fatal condition in token order:
\* the unknown option or the missing value the scan ends at, even when a
\* required Definition is missing too; a missing required argument is
\* reported only when the scan went through every token, and it is the first
\* unset required Definition in registration order.
C22_FirstFatalReported ==
    parses > 0 =>
        IF EndsIn(Events, "unknown")
        THEN /\ rc = 0 - 1
             /\ stderr = [msg |-> "Unknown argument", arg |-> argv[Events[Len(Events)].at]]
        ELSE IF EndsIn(Events, "missing")
        THEN /\ rc = 0 - 1
             /\ stderr = [msg |-> "Missing value for argument",
                          arg |-> argv[Events[Len(Events)].at]]
        ELSE IF UnsetRequired # {}
        THEN /\ rc = 0 - 1
             /\ stderr.msg = "Required argument missing"
             /\ \E i \in UnsetRequired :
                    /\ \A j \in UnsetRequired : i <= j
                    /\ stderr.arg = definitions[i].long_name
        ELSE rc = 0 /\ stderr = NoError

\* an unknown option reported, after a token that was read, while a
\* required argument is missing
C22_Witness ==
    /\ parses > 0
    /\ EndsIn(Events, "unknown")
    /\ Len(Events) > 1
    /\ UnsetRequired # {}
    /\ stderr.msg = "Unknown argument"

\* the definitions a token names, by short_name or by long_name
Matching(tok) ==
    {i \in 1..Len(definitions) :
        definitions[i].long_name = tok \/ definitions[i].short_name = tok}

\* the first of them in registration order, 0 when there is none
FirstMatch(tok) ==
    IF Matching(tok) = {} THEN 0
    ELSE CHOOSE i \in Matching(tok) : \A j \in Matching(tok) : i <= j

\* C23: a token is looked up against the short_name and the long_name of
\* every Definition and the first match in registration order is found: an
\* option of argv, given by either name, sets the Result of the first
\* Definition it matches, and a Result is set by such tokens only, so that
\* of two Definitions of equal long_name the one registered first is found.
C23_FirstMatchWins ==
    /\ \A tok \in Tokens : find_definition(definitions, tok) = FirstMatch(tok)
    /\ parses > 0 =>
           /\ \A n \in 1..Len(Events) :
                  Events[n].kind \in {"flag", "value"}
                  => results[FirstMatch(argv[Events[n].at])].is_set
           /\ \A i \in 1..Len(results) :
                  results[i].is_set
                  => \E n \in 1..Len(Events) :
                         /\ Events[n].kind \in {"flag", "value"}
                         /\ FirstMatch(argv[Events[n].at]) = i
           /\ \A i, j \in 1..Len(results) :
                  (/\ i < j
                   /\ definitions[i].long_name = definitions[j].long_name
                   /\ results[j].is_set)
                  => \E k \in 2..Len(argv) :
                         /\ argv[k] = definitions[j].short_name
                         /\ FirstMatch(argv[k]) = j

\* two definitions of one long_name, the first set by its short name
C23_Witness ==
    /\ parses > 0
    /\ rc = 0
    /\ Len(definitions) = 2
    /\ definitions[1].long_name = definitions[2].long_name
    /\ definitions[1].short_name # NULL
    /\ definitions[1].short_name # definitions[1].long_name
    /\ Len(argv) >= 2
    /\ argv[2] = definitions[1].short_name
    /\ results[1].is_set
    /\ ~results[2].is_set

\* the definitions an option token of the reading names
Named == {Events[m].def : m \in 1..Len(Events)}

\* C24: the token after an option that resolves to a non-Flag Definition is
\* its value whatever it holds: when it starts with '-' it is still what the
\* Result stores, the Definition it names is not set by it, and it is not a
\* positional argument; the token after a Flag option is read on its own.
C24_ValueTokenConsumed ==
    parses = 1 =>
        /\ \A n \in 1..Len(Events) :
               Events[n].kind = "value" =>
                   LET d == Events[n].def
                       tok == argv[Events[n].at + 1]
                   IN  /\ results[d].is_set
                       /\ (\A m \in Giving(d) : m <= n)
                              => results[d].value = Coerce(definitions[d].type, tok)
                       /\ (IsOptionToken(tok) /\ FirstMatch(tok) # 0 /\ FirstMatch(tok) \notin Named)
                              => ~results[FirstMatch(tok)].is_set
                       /\ (IsOptionToken(tok) /\ FirstMatch(tok) = 0)
                              => ~(stderr.msg = "Unknown argument" /\ Len(Events) = n)
        /\ \A n \in 1..Len(Events) :
               (Events[n].kind = "flag" /\ Events[n].at < Len(argv))
               => /\ Len(Events) > n
                  /\ Events[n + 1].at = Events[n].at + 1
        /\ \A i \in 1..Len(results) : results[i].is_set = (Giving(i) # {})
        /\ positional_args = PositionalsIn(argv, Events)

\* a successful parse where the value token names a registered option that
\* stays unset
C24_Witness ==
    /\ parses = 1
    /\ rc = 0
    /\ \E n \in 1..Len(Events) :
           /\ Events[n].kind = "value"
           /\ IsOptionToken(argv[Events[n].at + 1])
           /\ FirstMatch(argv[Events[n].at + 1]) # 0
           /\ ~results[FirstMatch(argv[Events[n].at + 1])].is_set
           /\ results[Events[n].def].value
                  = Coerce(definitions[Events[n].def].type, argv[Events[n].at + 1])
    /\ Len(positional_args) = 1

\* the tokens of Tokens that are numeric text
NumericText(tok) == tok = Num5

\* the number a token of Tokens starts with, as an int and (in tenths) as a
\* float; zero when it starts with none
LeadingNumber(type, tok) ==
    IF tok \in {Num5, File5}
    THEN (IF type = ARG_TYPE_INT THEN 5 ELSE 50)
    ELSE 0

\* the value events of the reading on Int and Float definitions whose value
\* token is not numeric text
Malformed ==
    {n \in 1..Len(Events) :
        /\ Events[n].kind = "value"
        /\ definitions[Events[n].def].type \in {ARG_TYPE_INT, ARG_TYPE_FLOAT}
        /\ ~NumericText(argv[Events[n].at + 1])}

\* what the parse of argv returns with the value token of event n well-formed
WellFormedOutcome(n) ==
    ParseOutcome(definitions, <<>>, [argv EXCEPT ![Events[n].at + 1] = Num5])

\* C25 as claimed: a value token that is not numeric text, for an Int or
\* Float option, does not make the parse fail (it returns what it returns
\* for a well-formed token), is_set becomes true and the value stored is
\* zero.
C25_MalformedNumberStoresZero ==
    parses = 1 =>
        \A n \in Malformed :
            LET d == Events[n].def
            IN  /\ rc = WellFormedOutcome(n).rc
                /\ results[d].is_set
                /\ (\A m \in Giving(d) : m <= n) => results[d].value = 0

\* C25, amended: the parse does not fail, is_set becomes true, and the value
\* stored is the number the token starts with, zero when it starts with
\* none.
C25_MalformedNumberStoresPrefix ==
    parses = 1 =>
        \A n \in Malformed :
            LET d == Events[n].def
            IN  /\ rc = WellFormedOutcome(n).rc
                /\ results[d].is_set
                /\ (\A m \in Giving(d) : m <= n)
                       => results[d].value
                              = LeadingNumber(definitions[d].type, argv[Events[n].at + 1])

\* a successful parse with a token that starts with a number stored as that
\* number
C25_Witness ==
    /\ parses = 1
    /\ rc = 0
    /\ \E n \in Malformed :
           /\ argv[Events[n].at + 1] = File5
           /\ results[Events[n].def].is_set
           /\ results[Events[n].def].value # 0

\* C26: a validation diagnostic is printed only in the step that takes a
\* Result from not-attempted to invalid, and only when the validator left a
\* message; a validator that returns false without a message, a passing
\* validator and a Result without validator print nothing.
C26_DiagnosticOnlyWithMessage ==
    [][parses' = parses =>
          \A i \in 1..Len(results) :
              /\ probe'[i].diags # probe[i].diags
                     => /\ probe'[i].diags = probe[i].diags + 1
                        /\ ~results[i].validation_attempted
                        /\ results'[i].validation_attempted
                        /\ ~results'[i].is_valid
                        /\ results'[i].validation_error # ""
                        /\ HasValidator(i)
              /\ (/\ ~results[i].validation_attempted
                  /\ results'[i].validation_attempted
                  /\ \/ results'[i].is_valid
                     \/ results'[i].validation_error = ""
                     \/ ~HasValidator(i))
                     => probe'[i].diags = probe[i].diags
      ]_vars

\* a validator that returned false without a message, and printed nothing
C26_Witness ==
    \E i \in 1..Len(results) :
        /\ HasValidator(i)
        /\ probe[i].accessed
        /\ probe[i].calls = 1
        /\ results[i].validation_attempted
        /\ ~results[i].is_valid
        /\ results[i].validation_error = ""
        /\ probe[i].diags = 0

\* C27: an accessor call of any kind that resolves a Result by long_name
\* validates it when that has not been attempted: once an accessor has
\* reached a Result its validation_attempted is true and its validator, if
\* any, has been invoked.
C27_AnyAccessorValidates ==
    allocated =>
        \A i \in 1..Len(results) :
            probe[i].accessed
            => /\ results[i].validation_attempted
               /\ HasValidator(i) => probe[i].calls = 1
               /\ ~HasValidator(i) => results[i].is_valid

C27_Witness ==
    /\ allocated
    /\ \E i \in 1..Len(results) :
           /\ probe[i].accessed
           /\ results[i].validation_attempted
           /\ HasValidator(i)
           /\ ~results[i].is_set
    /\ \E j \in 1..Len(results) :
           /\ probe[j].accessed
           /\ results[j].validation_attempted
           /\ ~HasValidator(j)

\* the Result an accessor reaches for a long_name that resolves: 0 when the
\* name resolves to no definition
Resolved(long_name) == FindByLongName(definitions, long_name)

\* C28: in every state reachable by any order of registration, parse and
\* accessor calls, no accessor has resolved a Definition that has no Result,
\* and once parse has allocated the Results there is one per Definition, with
\* results[i] referring to definitions[i].
C28_ResultForEveryDefinition ==
    /\ ~ub
    /\ allocated =>
           /\ Len(results) = Len(definitions)
           /\ \A i \in 1..Len(results) : results[i].definition = i
           /\ \A l \in LongNames :
                  Resolved(l) # 0 => ResultAt(Resolved(l)) = "result"

\* a registration made after the parse, and an accessor that resolved the
\* new Definition and read past the end of the results array
C28_Witness ==
    /\ allocated
    /\ ub
    /\ Len(definitions) = Len(results) + 1
    /\ \E l \in LongNames : ResultAt(Resolved(l)) = "outside"

\* C21: after arg_parser_destroy every string the parser duplicated (String
\* defaults, parsed String values, positional arguments) has been freed
\* exactly once: none is freed twice, none is left unfreed, whatever was
\* registered and whatever argv was parsed, failed parses included.
C21_StringsFreedExactlyOnce ==
    heap.destroyed =>
        /\ heap.twice = {}
        /\ heap.held = {}
        /\ heap.lost = {}

\* a String option given twice in a parse that succeeded: after the
\* teardown the first value is still allocated, the second one, the default
\* and the positional argument are freed
C21_Witness ==
    /\ heap.destroyed
    /\ rc = 0
    /\ Len(positional_args) = 1
    /\ heap.twice = {}
    /\ heap.held = {}
    /\ \E b \in heap.lost : b.kind = "value" /\ b.at = 3
    /\ \E b \in heap.freed : b.kind = "value" /\ b.at = 5
    /\ \E b \in heap.freed : b.kind = "default"
    /\ \E b \in heap.freed : b.kind = "positional"

====
